---- MODULE Spec2Model ----
(***************************************************************************)
(* Model of the bathtub measurement programs:                              *)
(*   bathe.py            the Textual form application and its Database    *)
(*   bathtub_manager.py  the record manager command line                   *)
(* Both programs work on one SQLite table, bathtubs.                       *)
(*                                                                         *)
(* Text is modelled as a sequence of one-character strings, so that        *)
(* strip(), float(), int() and str() are computed character by character.  *)
(* The alphabet of the model is                                            *)
(*   space + - 0..9 a b e f i n s x y A B E N S Y /                        *)
(* Over this alphabet Python's float() accepts exactly: optional blanks,   *)
(* an optional sign, then a run of digits, or a run of digits with an      *)
(* exponent (digits, e, an optional sign, digits), or one of inf / nan,    *)
(* letters in any case. The digit runs and exponents of the model are      *)
(* short, so that the value is exact.                                      *)
(*                                                                         *)
(* A Python float is a record [k, n, d]:                                   *)
(*   k = "fin"  the rational n/d in lowest terms, d > 0                    *)
(*   k = "inf"  infinity with sign n (1 or -1), d = 0                      *)
(*   k = "nan"  not a number, n = 0, d = 0                                 *)
(*   k = "deg"  math.degrees(math.atan(n/d)) for a rational n/d other than *)
(*             0, 1 and -1; atan is strictly increasing, so the angle is   *)
(*             represented exactly by its argument                         *)
(***************************************************************************)
EXTENDS Integers, Sequences, FiniteSets, TLC

\* ------------------------------------------------------------------ bounds
\* the largest identifier the model lets an INSERT hand out
MaxRows == 2

\* the number of times the model lets the manager reach update_field
MaxUpdateCalls == 1

\* the largest length calculate_incline is applied to on its own
MaxLength == 3

\* -------------------------------------------------------------------- text
Digits == <<"0", "1", "2", "3", "4", "5", "6", "7", "8", "9">>

IsDigit(c) == \E i \in 1..10 : Digits[i] = c

DigitVal(c) == (CHOOSE i \in 1..10 : Digits[i] = c) - 1

IsSpace(c) == c = " "

Lower(c) ==
    CASE c = "A" -> "a"
      [] c = "B" -> "b"
      [] c = "E" -> "e"
      [] c = "N" -> "n"
      [] c = "S" -> "s"
      [] c = "Y" -> "y"
      [] OTHER -> c

RECURSIVE lower(_)
lower(s) == IF s = <<>> THEN <<>> ELSE <<Lower(Head(s))>> \o lower(Tail(s))

RECURSIVE lstrip(_)
lstrip(s) == IF s # <<>> /\ IsSpace(Head(s)) THEN lstrip(Tail(s)) ELSE s

RECURSIVE rstrip(_)
rstrip(s) ==
    IF s # <<>> /\ IsSpace(s[Len(s)]) THEN rstrip(SubSeq(s, 1, Len(s) - 1)) ELSE s

strip(s) == rstrip(lstrip(s))

AllDigits(s) == s # <<>> /\ \A i \in 1..Len(s) : IsDigit(s[i])

RECURSIVE DigitsToNat(_)
DigitsToNat(s) ==
    IF s = <<>> THEN 0
    ELSE 10 * DigitsToNat(SubSeq(s, 1, Len(s) - 1)) + DigitVal(s[Len(s)])

RECURSIVE NatToDigits(_)
NatToDigits(n) ==
    IF n < 10 THEN <<Digits[n + 1]>>
    ELSE NatToDigits(n \div 10) \o <<Digits[(n % 10) + 1]>>

\* str(i) of a Python int
str_int(i) == IF i < 0 THEN <<"-">> \o NatToDigits(-i) ELSE NatToDigits(i)

HasSign(s) == s # <<>> /\ Head(s) \in {"+", "-"}

Unsigned(s) == IF HasSign(s) THEN Tail(s) ELSE s

SignOf(s) == IF s # <<>> /\ Head(s) = "-" THEN -1 ELSE 1

\* int(s) of a Python str: [ok |-> FALSE] stands for ValueError
int(s) ==
    LET b == Unsigned(strip(s))
    IN  IF AllDigits(b)
        THEN [ok |-> TRUE, v |-> SignOf(strip(s)) * DigitsToNat(b)]
        ELSE [ok |-> FALSE, v |-> 0]

\* ------------------------------------------------------------------ floats
RECURSIVE GCD(_, _)
GCD(a, b) == IF b = 0 THEN a ELSE GCD(b, a % b)

Abs(i) == IF i < 0 THEN -i ELSE i

Fin(n, d) ==
    LET g == GCD(Abs(n), Abs(d))
        s == IF d < 0 THEN -1 ELSE 1
    IN  [k |-> "fin", n |-> (s * n) \div g, d |-> (s * d) \div g]

Inf(s) == [k |-> "inf", n |-> s, d |-> 0]

NaN == [k |-> "nan", n |-> 0, d |-> 0]

Zero == Fin(0, 1)

Sgn(x) == IF x.n < 0 THEN -1 ELSE IF x.n > 0 THEN 1 ELSE 0

\* x - y
FSub(x, y) ==
    CASE x.k = "nan" \/ y.k = "nan" -> NaN
      [] x.k = "inf" /\ y.k = "inf" -> IF x.n = y.n THEN NaN ELSE x
      [] x.k = "inf" -> x
      [] y.k = "inf" -> Inf(-y.n)
      [] OTHER -> Fin(x.n * y.d - y.n * x.d, x.d * y.d)

\* abs(x)
FAbs(x) ==
    CASE x.k = "nan" -> NaN
      [] x.k = "inf" -> Inf(1)
      [] OTHER -> Fin(Abs(x.n), x.d)

\* x / y for y # 0 (the callers never divide by zero)
FDiv(x, y) ==
    CASE x.k = "nan" \/ y.k = "nan" -> NaN
      [] x.k = "inf" /\ y.k = "inf" -> NaN
      [] x.k = "inf" -> Inf(x.n * Sgn(y))
      [] y.k = "inf" -> Zero
      [] OTHER -> Fin(x.n * y.d, x.d * y.n)

\* x == 0
FIsZero(x) == x.k = "fin" /\ x.n = 0

\* math.degrees(math.atan(x))
atan_degrees(x) ==
    CASE x.k = "nan" -> NaN
      [] x.k = "inf" -> Fin(90 * x.n, 1)
      [] x.n = 0 -> Zero
      [] x.n = x.d -> Fin(45, 1)
      [] x.n = -x.d -> Fin(-45, 1)
      [] OTHER -> [k |-> "deg", n |-> x.n, d |-> x.d]

RECURSIVE Pow10(_)
Pow10(k) == IF k = 0 THEN 1 ELSE 10 * Pow10(k - 1)

\* the place of the e in a text of the form digits, e, optional sign, digits;
\* 0 if the text is not of that form
ExpMark(b) ==
    LET P == {i \in 2..(Len(b) - 1) :
                /\ Lower(b[i]) = "e"
                /\ AllDigits(SubSeq(b, 1, i - 1))
                /\ AllDigits(Unsigned(SubSeq(b, i + 1, Len(b))))}
    IN  IF P = {} THEN 0 ELSE CHOOSE i \in P : TRUE

\* the value of a text of that form
ExpValue(b) ==
    LET i == ExpMark(b)
        m == DigitsToNat(SubSeq(b, 1, i - 1))
        x == SubSeq(b, i + 1, Len(b))
        k == DigitsToNat(Unsigned(x))
    IN  IF SignOf(x) = 1 THEN Fin(m * Pow10(k), 1) ELSE Fin(m, Pow10(k))

\* float(s) of a Python str: [ok |-> FALSE] stands for ValueError
float(s) ==
    LET t == strip(s)
        b == lower(Unsigned(t))
    IN  CASE AllDigits(b) -> [ok |-> TRUE, v |-> Fin(SignOf(t) * DigitsToNat(b), 1)]
          [] ExpMark(b) # 0 ->
               [ok |-> TRUE, v |-> Fin(SignOf(t) * ExpValue(b).n, ExpValue(b).d)]
          [] b = <<"i", "n", "f">> -> [ok |-> TRUE, v |-> Inf(SignOf(t))]
          [] b = <<"n", "a", "n">> -> [ok |-> TRUE, v |-> NaN]
          [] OTHER -> [ok |-> FALSE, v |-> NaN]

\* ------------------------------------------------------------ calculation
\* AddBathtubScreen.calculate_incline
calculate_incline(top_length, bottom_length, height) ==
    IF FIsZero(height) THEN Zero
    ELSE LET horizontal_diff == FDiv(FAbs(FSub(top_length, bottom_length)), Fin(2, 1))
         IN  atan_degrees(FDiv(horizontal_diff, height))

\* ---------------------------------------------------------------- the table
\* BathtubDatabaseManager.FIELDS: type, required and readonly of each column
FIELDS ==
    [name                 |-> [type |-> "str",   required |-> TRUE,  readonly |-> FALSE],
     top_length           |-> [type |-> "float", required |-> TRUE,  readonly |-> FALSE],
     bottom_length        |-> [type |-> "float", required |-> TRUE,  readonly |-> FALSE],
     width                |-> [type |-> "float", required |-> TRUE,  readonly |-> FALSE],
     height               |-> [type |-> "float", required |-> TRUE,  readonly |-> FALSE],
     side_incline_degrees |-> [type |-> "float", required |-> TRUE,  readonly |-> FALSE],
     liters               |-> [type |-> "str",   required |-> FALSE, readonly |-> FALSE],
     created_at           |-> [type |-> "str",   required |-> FALSE, readonly |-> TRUE]]

\* the REAL NOT NULL columns of CREATE TABLE bathtubs
RealColumns == {"top_length", "bottom_length", "width", "height", "side_incline_degrees"}

\* the TEXT and TIMESTAMP columns of CREATE TABLE bathtubs
TextColumns == {"name", "liters", "created_at"}

Columns == {"id"} \cup RealColumns \cup TextColumns

NA == <<"N", "/", "A">>

\* sqlite3 binds a NaN as NULL; a NULL in a NOT NULL column is an IntegrityError
BindsNull(x) == x.k = "nan"

\* CURRENT_TIMESTAMP as text
current_timestamp(now) == NatToDigits(now)

SetMax(S) == CHOOSE m \in S : \A x \in S : x <= m

\* next_rowid of a plain INTEGER PRIMARY KEY: one more than the largest rowid stored
next_rowid_no_autoincrement(db, seq) ==
    IF DOMAIN db = {} THEN 1 ELSE SetMax(DOMAIN db) + 1

\* INTEGER PRIMARY KEY AUTOINCREMENT: one more than the largest rowid ever used
next_rowid(db, seq) ==
    IF DOMAIN db = {} THEN seq + 1
    ELSE (IF SetMax(DOMAIN db) > seq THEN SetMax(DOMAIN db) ELSE seq) + 1

\* Database.add_bathtub; raised = "" when the INSERT went through
add_bathtub(db, seq, now, name, top_length, bottom_length, width, height, side_incline, liters) ==
    IF \E x \in {top_length, bottom_length, width, height, side_incline} : BindsNull(x)
    THEN [raised |-> "IntegrityError", lastrowid |-> 0, db |-> db, seq |-> seq]
    ELSE LET id == next_rowid(db, seq)
             row == [id |-> id, name |-> name, top_length |-> top_length,
                     bottom_length |-> bottom_length, width |-> width,
                     height |-> height, side_incline_degrees |-> side_incline,
                     liters |-> liters, created_at |-> current_timestamp(now)]
         IN  [raised |-> "", lastrowid |-> id,
              db |-> [i \in DOMAIN db \cup {id} |-> IF i = id THEN row ELSE db[i]],
              seq |-> id]

\* delete_bathtub with the WHERE clause left out: every row goes
delete_bathtub_all(db, bathtub_id) ==
    [result |-> DOMAIN db # {}, db |-> [i \in {} |-> db[i]]]

\* Database.delete_bathtub
delete_bathtub(db, bathtub_id) ==
    [result |-> bathtub_id \in DOMAIN db,
     db |-> [i \in DOMAIN db \ {bathtub_id} |-> db[i]]]

\* where_id with the WHERE clause left out: every row matches
where_id_all(db, param) == DOMAIN db

\* "WHERE id = ?" with a text parameter: NUMERIC affinity is applied to the
\* text, which then compares equal to the rowid if it is a well-formed number
\* of that value
where_id(db, param) ==
    LET t == strip(param)
        b == Unsigned(t)
    IN  IF AllDigits(b) THEN {i \in DOMAIN db : i = SignOf(t) * DigitsToNat(b)}
        ELSE IF ExpMark(b) # 0
        THEN {i \in DOMAIN db : Fin(i, 1) = Fin(SignOf(t) * ExpValue(b).n, ExpValue(b).d)}
        ELSE {}

\* BathtubDatabaseManager.search_entries(search_term, search_by_id=True)
search_entries_by_id(db, search_term) ==
    IF int(search_term).ok
    THEN {db[i] : i \in {j \in DOMAIN db : j = int(search_term).v}}
    ELSE {}

\* BathtubDatabaseManager.get_entry_by_id: the set holding the entry, or {} for None
get_entry_by_id(db, entry_id) == search_entries_by_id(db, str_int(entry_id))

\* convert with the failure of float() ignored
convert_unchecked(expected_type, new_value) ==
    IF expected_type = "float"
    THEN [ok |-> TRUE, real |-> float(new_value).v, text |-> <<>>]
    ELSE [ok |-> TRUE, real |-> NaN, text |-> new_value]

\* the converted value of update_field: [ok |-> FALSE] stands for the ValueError
convert(expected_type, new_value) ==
    IF expected_type = "float"
    THEN [ok |-> float(new_value).ok, real |-> float(new_value).v, text |-> <<>>]
    ELSE [ok |-> TRUE, real |-> NaN, text |-> new_value]

\* field_error without the readonly check
field_error_no_readonly(field) ==
    IF field \notin DOMAIN FIELDS THEN "Unknown field" ELSE ""

\* field_error with the table looked up before the field name is checked
field_error_key_error(field) ==
    IF field \notin DOMAIN FIELDS THEN "KeyError"
    ELSE IF FIELDS[field].readonly THEN "read-only"
    ELSE ""

\* the field checks of update_field: the error raised, "" for none
field_error(field) ==
    IF field \notin DOMAIN FIELDS THEN "Unknown field"
    ELSE IF FIELDS[field].readonly THEN "read-only"
    ELSE ""

\* the UPDATE statement of update_field for the rows hit and the converted value c
execute_update(db, hit, field, c) ==
    LET v == IF FIELDS[field].type = "float" THEN c.real ELSE c.text
    IN  IF hit # {} /\ field \in RealColumns /\ BindsNull(c.real)
        THEN [raised |-> "Database error", result |-> FALSE, db |-> db]
        ELSE [raised |-> "", result |-> hit # {},
              db |-> [i \in DOMAIN db |->
                        IF i \in hit THEN [db[i] EXCEPT ![field] = v] ELSE db[i]]]

\* BathtubDatabaseManager.update_field with entry_id and new_value as text
update_field(db, entry_id, field, new_value) ==
    IF field_error(field) # ""
    THEN [raised |-> field_error(field), result |-> FALSE, db |-> db]
    ELSE LET c == convert(FIELDS[field].type, new_value)
         IN  IF ~c.ok
             THEN [raised |-> "Invalid value", result |-> FALSE, db |-> db]
             ELSE execute_update(db, where_id(db, entry_id), field, c)

\* update_field as run_interactive calls it: entry_id is the int of the entry
\* selected, the field is one of the editable ones, and new_value is the
\* float or the str that interactive_field_selection returned, on which the
\* conversion of update_field changes nothing
update_field_selected(db, entry_id, field, c) ==
    execute_update(db, {i \in DOMAIN db : i = entry_id}, field, c)

\* s in t: the text s occurs in the text t
Occurs(s, t) == \E i \in 0..(Len(t) - Len(s)) : SubSeq(t, i + 1, i + Len(s)) = s

\* BathtubDatabaseManager.search_entries(search_term): name LIKE %term%, which
\* takes no notice of the case of letters (the order of the rows is left out)
search_entries_by_name(db, search_term) ==
    {db[i] : i \in {j \in DOMAIN db : Occurs(lower(search_term), lower(db[j].name))}}

\* BathtubDatabaseManager.search_entries(): every row
search_entries_all(db) == {db[i] : i \in DOMAIN db}

\* _check_database that takes the file for granted
check_database_unchecked(exists) == ""

\* BathtubDatabaseManager._check_database: the error raised, "" for none
check_database(exists) == IF exists THEN "" ELSE "FileNotFoundError"

\* parser.parse_args: "argparse" when --id is given and int() refuses it
parse_args(args) ==
    IF args.has_id /\ ~int(args.id).ok THEN "argparse" ELSE ""

\* the branch main takes: an option that is given but falsy ("" for --search,
\* 0 for --id) counts as not given in the if/elif chain
mode(args) ==
    IF args.has_search /\ args.search # <<>> THEN "search"
    ELSE IF args.has_id /\ int(args.id).v # 0 THEN "id"
    ELSE IF args.list THEN "list"
    ELSE "interactive"

\* the answers the confirmation prompt takes for a yes, with "" being one
confirmed_by_default(answer) == lower(strip(answer)) \in {<<>>, <<"y">>, <<"y", "e", "s">>}

\* confirm = input(...).strip().lower(); confirm in ['y', 'yes']
confirmed(answer) == lower(strip(answer)) \in {<<"y">>, <<"y", "e", "s">>}

\* the editable fields in the order of FIELDS, as interactive_field_selection numbers them
editable_fields ==
    <<"name", "top_length", "bottom_length", "width", "height", "side_incline_degrees", "liters">>

\* ------------------------------------------------------------------ inputs
\* what the user types into the six inputs of the form
BaseFill ==
    [name |-> <<"A">>, top_length |-> <<"6">>, bottom_length |-> <<"4">>,
     width |-> <<"3">>, height |-> <<"2">>, liters |-> <<" ", "9", " ">>]

FormFills ==
    {BaseFill,
     [BaseFill EXCEPT !.name = <<>>],
     [BaseFill EXCEPT !.width = <<>>],
     [BaseFill EXCEPT !.bottom_length = <<"n", "a", "n">>],
     [BaseFill EXCEPT !.top_length = <<"-", "2">>, !.height = <<"0">>, !.liters = <<" ">>]}

\* the arguments of --update ID FIELD VALUE
IdArgs == {<<"1">>, <<" ", "0", "2">>}

FieldArgs == DOMAIN FIELDS \cup {"id", "colour"}

ValueArgs == {<<>>, <<"-", "5">>, <<"n", "a", "n">>}

\* the command line without --update: --search TERM, --id ID and --list, each
\* given or not
NoArgs ==
    [has_search |-> FALSE, search |-> <<>>, has_id |-> FALSE, id |-> <<>>, list |-> FALSE]

IdArg(text) == [NoArgs EXCEPT !.has_id = TRUE, !.id = text]

SearchArg(text) == [NoArgs EXCEPT !.has_search = TRUE, !.search = text]

MainArgs ==
    {NoArgs,
     [NoArgs EXCEPT !.list = TRUE],
     SearchArg(<<"a">>),
     SearchArg(<<>>),
     IdArg(<<"1">>),
     IdArg(<<"0">>),
     IdArg(<<"x">>),
     [IdArg(<<"0">>) EXCEPT !.list = TRUE],
     [IdArg(<<"1">>) EXCEPT !.list = TRUE],
     [SearchArg(<<"a">>) EXCEPT !.has_id = TRUE, !.id = <<"1">>]}

\* what the user types at the prompts of the interactive mode
OptionChoices == {<<"1">>, <<" ", "2">>, <<"3">>, <<>>}

SearchInputs ==
    {[choice |-> <<"1">>, text |-> <<>>], [choice |-> <<"1">>, text |-> <<"a">>],
     [choice |-> <<"2">>, text |-> <<"1">>], [choice |-> <<"2">>, text |-> <<"x">>],
     [choice |-> <<"3">>, text |-> <<>>], [choice |-> <<"9">>, text |-> <<>>]}

SelectInputs == {<<"2">>, <<"9">>, <<"x">>}

FieldChoices == {<<"5">>, <<"7">>, <<"8">>, <<"x">>}

ValueInputs == {<<>>, <<" ", "5">>, <<"n", "a", "n">>}

ConfirmAnswers == {<<"y">>, <<" ", "Y", "E", "S", " ">>, <<"n">>, <<>>}

\* ------------------------------------------------------------------- state
\* The two programs are run one at a time on the same bathtubs.db: the manager
\* and the store API are called while the form application is closed. A call
\* that has an outcome (save_bathtub, update_field, delete_bathtub) records it
\* in ret, and the next operation starts once the outcome has been dropped
\* (finish). Time is a logical clock: every INSERT falls into a second of its
\* own. A NaN that reaches the table is refused by the NOT NULL columns; in
\* save_bathtub that exception leaves the handler and ends the application.
VARIABLES
    db_exists,        \* the file bathtubs.db exists and holds the table
    bathtubs,         \* the table: rowid -> row
    sqlite_sequence,  \* AUTOINCREMENT's record of the largest rowid ever used
    clock,            \* the time, in seconds: CURRENT_TIMESTAMP
    screen,           \* the form application: "closed", "menu" or "add"
    form,             \* the values of the six inputs of AddBathtubScreen
    result_display,   \* the text and the class of #result_display
    ret,              \* the call under way: its arguments and its outcome
    ncalls,           \* the number of calls of update_field so far
    assigned,         \* history: every identifier an INSERT has returned
    incline_call,     \* a call of calculate_incline on its own: arguments and result
    session           \* the manager's interactive mode: the prompt it is at and
                      \* what has been selected so far

vars == <<db_exists, bathtubs, sqlite_sequence, clock, screen, form, result_display, ret, ncalls, assigned, incline_call, session>>

store == <<db_exists, bathtubs, sqlite_sequence>>

BlankForm ==
    [name |-> <<>>, top_length |-> <<>>, bottom_length |-> <<>>,
     width |-> <<>>, height |-> <<>>, liters |-> <<>>]

BlankDisplay == [text |-> "", class |-> "result-display"]

NoCall ==
    [op |-> "", entry_id |-> <<>>, field |-> "", new_value |-> <<>>, bathtub_id |-> 0,
     result |-> "None", raised |-> "", lastrowid |-> 0, exit_code |-> 0,
     args |-> NoArgs, mode |-> "", entries |-> {}, answer |-> <<>>]

\* the interactive mode is not running
NoSession ==
    [at |-> "closed", entries |-> {}, entry_id |-> 0, field |-> "",
     new_value |-> [ok |-> TRUE, real |-> NaN, text |-> <<>>]]

Bool(b) == IF b THEN "True" ELSE "False"

NoInclineCall ==
    [top_length |-> Zero, bottom_length |-> Zero, height |-> Zero,
     returned |-> FALSE, result |-> Zero]

\* no call is under way: the outcome of the last one has been taken note of,
\* and the manager's interactive mode is not running
Idle == ret = NoCall /\ session.at = "closed"

Init ==
    /\ db_exists = FALSE
    /\ bathtubs = <<>>
    /\ sqlite_sequence = 0
    /\ clock = 0
    /\ screen = "closed"
    /\ form = BlankForm
    /\ result_display = BlankDisplay
    /\ ret = NoCall
    /\ ncalls = 0
    /\ assigned = {}
    /\ session = NoSession
    /\ incline_call = NoInclineCall

\* ------------------------------------------------------ the form application
\* bathe.main: BathtubApp().run()
run ==
    /\ Idle
    /\ screen = "closed"
    /\ screen' = "menu"
    /\ ret' = ret
    /\ UNCHANGED <<db_exists, bathtubs, sqlite_sequence, clock, form, result_display, ncalls, assigned, incline_call, session>>

\* BathtubApp.action_quit
action_quit ==
    /\ Idle
    /\ screen = "menu"
    /\ screen' = "closed"
    /\ ret' = ret
    /\ UNCHANGED <<db_exists, bathtubs, sqlite_sequence, clock, form, result_display, ncalls, assigned, incline_call, session>>

\* BathtubApp.action_add_bathtub: a new AddBathtubScreen with empty inputs
action_add_bathtub ==
    /\ Idle
    /\ screen = "menu"
    /\ screen' = "add"
    /\ form' = BlankForm
    /\ result_display' = BlankDisplay
    /\ ret' = ret
    /\ UNCHANGED <<db_exists, bathtubs, sqlite_sequence, clock, ncalls, assigned, incline_call, session>>

\* the user edits the inputs of the form
type_inputs(fill) ==
    /\ Idle
    /\ screen = "add"
    /\ form' = fill
    /\ ret' = ret
    /\ UNCHANGED <<db_exists, bathtubs, sqlite_sequence, clock, screen, result_display, ncalls, assigned, incline_call, session>>

\* AddBathtubScreen.cancel: the screen and its inputs are dropped
cancel ==
    /\ Idle
    /\ screen = "add"
    /\ screen' = "menu"
    /\ form' = BlankForm
    /\ result_display' = BlankDisplay
    /\ ret' = ret
    /\ UNCHANGED <<db_exists, bathtubs, sqlite_sequence, clock, ncalls, assigned, incline_call, session>>

\* ParsesAll that looks at the first measurement only
ParsesAll_top_only(f) == float(f.top_length).ok

\* the measurements of the form parse as floats
ParsesAll(f) ==
    /\ float(f.top_length).ok
    /\ float(f.bottom_length).ok
    /\ float(f.width).ok
    /\ float(f.height).ok

\* liters_of that tests the stripped text but stores the text as entered
liters_of_unstripped(value) == IF strip(value) # <<>> THEN value ELSE NA

\* liters_input.value.strip() if liters_input.value.strip() else "N/A"
liters_of(value) == IF strip(value) # <<>> THEN strip(value) ELSE NA

\* the add_bathtub call of save_bathtub for the inputs f at timestamp now
save_insert(db, seq, now, f) ==
    LET top_length == float(f.top_length).v
        bottom_length == float(f.bottom_length).v
        width == float(f.width).v
        height == float(f.height).v
        incline == calculate_incline(top_length, bottom_length, height)
    IN  add_bathtub(db, seq, now, f.name, top_length, bottom_length, width, height, incline, liters_of(f.liters))

\* AddBathtubScreen.save_bathtub
save_bathtub ==
    /\ Idle
    /\ screen = "add"
    /\ IF form.name = <<>>
       THEN /\ result_display' = [text |-> "Please enter a name", class |-> "error-display"]
            /\ ret' = [NoCall EXCEPT !.op = "save_bathtub"]
            /\ UNCHANGED <<db_exists, bathtubs, sqlite_sequence, clock, screen, form, ncalls, assigned, incline_call, session>>
       ELSE IF ~ParsesAll(form)
       THEN /\ result_display' = [text |-> "Please enter valid numeric values", class |-> "error-display"]
            /\ ret' = [NoCall EXCEPT !.op = "save_bathtub"]
            /\ UNCHANGED <<db_exists, bathtubs, sqlite_sequence, clock, screen, form, ncalls, assigned, incline_call, session>>
       ELSE LET r == save_insert(bathtubs, sqlite_sequence, clock, form)
            IN    /\ r.raised = "" => sqlite_sequence < MaxRows
                  /\ db_exists' = TRUE
                  /\ bathtubs' = r.db
                  /\ sqlite_sequence' = r.seq
                  /\ clock' = IF r.raised = "" THEN clock + 1 ELSE clock
                  /\ ret' = [NoCall EXCEPT !.op = "save_bathtub", !.raised = r.raised,
                                           !.lastrowid = r.lastrowid]
                  /\ IF r.raised = ""
                     THEN /\ result_display' = [text |-> "Saved", class |-> "result-display"]
                          /\ form' = BlankForm
                          /\ screen' = screen
                     ELSE \* the exception leaves the handler and ends the application
                          /\ result_display' = BlankDisplay
                          /\ form' = BlankForm
                          /\ screen' = "closed"
                  /\ assigned' = IF r.raised = "" THEN assigned \cup {r.lastrowid} ELSE assigned
                  /\ UNCHANGED <<ncalls, incline_call, session>>

\* ------------------------------------------------------------ the store API
\* Database().delete_bathtub(bathtub_id), called while the form application is not running
call_delete_bathtub(bathtub_id) ==
    /\ Idle
    /\ screen = "closed"
    /\ LET r == delete_bathtub(bathtubs, bathtub_id)
       IN  /\ db_exists' = TRUE
           /\ bathtubs' = r.db
           /\ ret' = [NoCall EXCEPT !.op = "delete_bathtub", !.bathtub_id = bathtub_id,
                                    !.result = Bool(r.result)]
    /\ UNCHANGED <<sqlite_sequence, clock, screen, form, result_display, ncalls, assigned, incline_call, session>>

\* ------------------------------------------------------- the manager's CLI
\* bathtub_manager.main with --update ID FIELD VALUE
main_update(entry_id, field, value) ==
    /\ Idle
    /\ screen = "closed"
    /\ IF check_database(db_exists) # ""
       THEN \* _check_database raises FileNotFoundError
            /\ ret' = [NoCall EXCEPT !.op = "_check_database", !.entry_id = entry_id,
                                     !.field = field, !.new_value = value,
                                     !.raised = "FileNotFoundError", !.exit_code = 1]
            /\ UNCHANGED <<bathtubs, ncalls>>
       ELSE LET r == update_field(bathtubs, entry_id, field, value)
            IN  /\ ncalls < MaxUpdateCalls
                /\ bathtubs' = r.db
                /\ ncalls' = ncalls + 1
                /\ ret' = [NoCall EXCEPT !.op = "update_field", !.entry_id = entry_id,
                                         !.field = field, !.new_value = value,
                                         !.result = IF r.raised = "" THEN Bool(r.result) ELSE "None",
                                         !.raised = r.raised,
                                         !.exit_code = IF r.raised = "" THEN 0 ELSE 1]
    /\ UNCHANGED <<db_exists, sqlite_sequence, clock, screen, form, result_display, assigned, incline_call, session>>

\* bathtub_manager.main without --update
main(args) ==
    /\ Idle
    /\ screen = "closed"
    /\ IF parse_args(args) # ""
       THEN \* argparse prints the usage and exits with 2
            /\ ret' = [NoCall EXCEPT !.op = "main", !.args = args,
                                     !.raised = parse_args(args), !.exit_code = 2]
            /\ UNCHANGED session
       ELSE IF check_database(db_exists) # ""
       THEN \* the outer except of main
            /\ ret' = [NoCall EXCEPT !.op = "main", !.args = args,
                                     !.raised = check_database(db_exists), !.exit_code = 1]
            /\ UNCHANGED session
       ELSE IF mode(args) = "interactive"
       THEN \* the model opens the interactive mode while an update is still allowed
            /\ ncalls < MaxUpdateCalls
            /\ ret' = [NoCall EXCEPT !.op = "main", !.args = args, !.mode = "interactive"]
            /\ session' = [NoSession EXCEPT !.at = "options"]
       ELSE /\ ret' = [NoCall EXCEPT !.op = "main", !.args = args, !.mode = mode(args),
                                     !.entries =
                                        CASE mode(args) = "search" -> search_entries_by_name(bathtubs, args.search)
                                          [] mode(args) = "id" -> search_entries_by_id(bathtubs, str_int(int(args.id).v))
                                          [] OTHER -> search_entries_all(bathtubs)]
            /\ UNCHANGED session
    /\ UNCHANGED <<db_exists, bathtubs, sqlite_sequence, clock, screen, form, result_display, ncalls, assigned, incline_call>>

\* run_interactive: the answer to the options menu
run_interactive(choice) ==
    /\ ret = NoCall
    /\ session.at = "options"
    /\ session' =
         CASE strip(choice) = <<"1">> -> [session EXCEPT !.at = "search"]
           [] strip(choice) = <<"3">> -> NoSession
           [] OTHER -> session   \* "2" lists the entries, anything else is invalid
    /\ UNCHANGED <<db_exists, bathtubs, sqlite_sequence, clock, screen, form, result_display, ret, ncalls, assigned, incline_call>>

\* the entries interactive_search finds for a choice and the text typed after
\* it; [ok |-> FALSE] when the choice is asked for again
searched(db, choice, text) ==
    CASE strip(choice) = <<"1">> /\ strip(text) # <<>> ->
           [ok |-> TRUE, entries |-> search_entries_by_name(db, strip(text))]
      [] strip(choice) = <<"2">> /\ int(strip(text)).ok ->
           [ok |-> TRUE, entries |-> search_entries_by_id(db, str_int(int(strip(text)).v))]
      [] strip(choice) = <<"3">> ->
           [ok |-> TRUE, entries |-> search_entries_all(db)]
      [] OTHER -> [ok |-> FALSE, entries |-> {}]

\* interactive_search: the choice of a search and its outcome
interactive_search(choice, text) ==
    /\ ret = NoCall
    /\ session.at = "search"
    /\ LET found == searched(bathtubs, choice, text)
           ids == {e.id : e \in found.entries}
       IN  session' =
             IF ~found.ok THEN session
             ELSE IF ids = {} THEN [session EXCEPT !.at = "options"]
             ELSE IF Cardinality(ids) = 1
             THEN [session EXCEPT !.at = "field", !.entry_id = CHOOSE i \in ids : TRUE]
             ELSE [session EXCEPT !.at = "select", !.entries = ids]
    /\ UNCHANGED <<db_exists, bathtubs, sqlite_sequence, clock, screen, form, result_display, ret, ncalls, assigned, incline_call>>

\* interactive_search: the choice among several entries found
interactive_search_select(text) ==
    /\ ret = NoCall
    /\ session.at = "select"
    /\ session' =
         IF int(text).ok /\ int(text).v \in session.entries
         THEN [session EXCEPT !.at = "field", !.entries = {}, !.entry_id = int(text).v]
         ELSE session
    /\ UNCHANGED <<db_exists, bathtubs, sqlite_sequence, clock, screen, form, result_display, ret, ncalls, assigned, incline_call>>

\* interactive_field_selection: the choice of the field
interactive_field_selection(choice) ==
    /\ ret = NoCall
    /\ session.at = "field"
    /\ session' =
         IF int(choice).ok /\ 1 <= int(choice).v /\ int(choice).v <= Len(editable_fields)
         THEN [session EXCEPT !.at = "value", !.field = editable_fields[int(choice).v]]
         ELSE session
    /\ UNCHANGED <<db_exists, bathtubs, sqlite_sequence, clock, screen, form, result_display, ret, ncalls, assigned, incline_call>>

\* interactive_field_selection: the new value
interactive_field_value(text) ==
    /\ ret = NoCall
    /\ session.at = "value"
    /\ LET new_value == strip(text)
           c == convert(FIELDS[session.field].type, new_value)
       IN  session' =
             IF new_value = <<>> /\ ~FIELDS[session.field].required
             THEN [session EXCEPT !.at = "confirm", !.new_value = [ok |-> TRUE, real |-> NaN, text |-> NA]]
             ELSE IF new_value = <<>> \/ ~c.ok THEN session
             ELSE [session EXCEPT !.at = "confirm", !.new_value = c]
    /\ UNCHANGED <<db_exists, bathtubs, sqlite_sequence, clock, screen, form, result_display, ret, ncalls, assigned, incline_call>>

\* run_interactive: the answer to "Confirm this change? (y/N)", the update if
\* it is a yes, and the way back to the options menu
confirm_change(answer) ==
    /\ ret = NoCall
    /\ session.at = "confirm"
    /\ IF confirmed(answer)
       THEN LET r == update_field_selected(bathtubs, session.entry_id, session.field, session.new_value)
            IN  /\ ncalls < MaxUpdateCalls
                /\ bathtubs' = r.db
                /\ ncalls' = ncalls + 1
                /\ ret' = [NoCall EXCEPT !.op = "run_interactive", !.answer = answer,
                                         !.result = IF r.raised = "" THEN Bool(r.result) ELSE "None",
                                         !.raised = r.raised]
       ELSE \* "Change cancelled."
            /\ ret' = [NoCall EXCEPT !.op = "run_interactive", !.answer = answer]
            /\ UNCHANGED <<bathtubs, ncalls>>
    /\ session' = [NoSession EXCEPT !.at = "options"]
    /\ UNCHANGED <<db_exists, sqlite_sequence, clock, screen, form, result_display, assigned, incline_call>>

\* the outcome of a call has been shown; control is back with the user
finish ==
    /\ ret # NoCall
    /\ ret' = NoCall
    /\ UNCHANGED <<db_exists, bathtubs, sqlite_sequence, clock, screen, form, result_display, ncalls, assigned, incline_call, session>>

Next ==
    \/ finish
    \/ run
    \/ action_quit
    \/ action_add_bathtub
    \/ \E fill \in FormFills : type_inputs(fill)
    \/ cancel
    \/ save_bathtub
    \/ \E bathtub_id \in 1..(MaxRows + 1) : call_delete_bathtub(bathtub_id)
    \/ \E entry_id \in IdArgs, field \in FieldArgs, value \in ValueArgs : main_update(entry_id, field, value)
    \/ \E args \in MainArgs : main(args)
    \/ \E choice \in OptionChoices : run_interactive(choice)
    \/ \E input \in SearchInputs : interactive_search(input.choice, input.text)
    \/ \E text \in SelectInputs : interactive_search_select(text)
    \/ \E choice \in FieldChoices : interactive_field_selection(choice)
    \/ \E text \in ValueInputs : interactive_field_value(text)
    \/ \E answer \in ConfirmAnswers : confirm_change(answer)

Spec == Init /\ [][Next]_vars

\* --------------------------------------------- calculate_incline on its own
\* the non-negative floats the function is applied to: whole lengths, and the
\* infinity that float("inf") in a measurement input yields
InclineInputs == {Fin(n, 1) : n \in 0..MaxLength} \cup {Inf(1)}

InclineInit ==
    /\ Init!1 /\ Init!2 /\ Init!3 /\ Init!4 /\ Init!5
    /\ Init!6 /\ Init!7 /\ Init!8 /\ Init!9 /\ Init!10 /\ Init!11
    /\ \E top_length, bottom_length, height \in InclineInputs :
          incline_call = [NoInclineCall EXCEPT !.top_length = top_length,
                                               !.bottom_length = bottom_length,
                                               !.height = height]

\* self.calculate_incline(top_length, bottom_length, height) returns
call_calculate_incline ==
    /\ ~incline_call.returned
    /\ incline_call' =
         [incline_call EXCEPT !.returned = TRUE,
                              !.result = calculate_incline(incline_call.top_length,
                                                           incline_call.bottom_length,
                                                           incline_call.height)]
    /\ UNCHANGED <<db_exists, bathtubs, sqlite_sequence, clock, screen, form, result_display, ret, ncalls, assigned, session>>

InclineNext == call_calculate_incline

InclineSpec == InclineInit /\ [][InclineNext]_vars

\* ------------------------------------------------------------------ claims
\* the identifier an --update argument denotes, 0 when it denotes none
DenotedId(entry_id) == IF int(entry_id).ok THEN int(entry_id).v ELSE 0

\* the value update_field is to store in a column for the text given
ConvertedValue(field, text) ==
    IF field \in {"top_length", "bottom_length", "width", "height", "side_incline_degrees"}
    THEN float(text).v
    ELSE text

UpdateReturned == ret'.op = "update_field" /\ ret.op = ""

\* C1: an update_field that returns true overwrites exactly one column of
\* exactly one row: the named column of the row addressed holds the converted
\* new value, the other columns of that row (id and created_at included) and
\* every other row are as before, and the set of identifiers is as before.
C1_UpdateOverwritesOneColumn ==
    [][(UpdateReturned /\ ret'.result = "True") =>
         LET id == DenotedId(ret'.entry_id)
         IN  /\ id \in DOMAIN bathtubs
             /\ DOMAIN bathtubs' = DOMAIN bathtubs
             /\ bathtubs'[id][ret'.field] = ConvertedValue(ret'.field, ret'.new_value)
             /\ \A col \in Columns \ {ret'.field} : bathtubs'[id][col] = bathtubs[id][col]
             /\ \A other \in DOMAIN bathtubs \ {id} : bathtubs'[other] = bathtubs[other]
             /\ sqlite_sequence' = sqlite_sequence]_vars

\* an update of liters returned true while another row was stored
C1_Witness ==
    /\ ret.op = "update_field"
    /\ ret.result = "True"
    /\ ret.field = "liters"
    /\ Cardinality(DOMAIN bathtubs) = 2
    /\ bathtubs[DenotedId(ret.entry_id)].liters = ret.new_value

\* C2: update_field on created_at raises the read-only error for every
\* identifier and value and leaves the store as it was; so no insert, update
\* or delete changes the created_at of a record that stays in the table.
C2_CreatedAtIsReadOnly ==
    [][/\ (UpdateReturned /\ ret'.field = "created_at") =>
             (ret'.raised = "read-only" /\ store' = store)
       /\ \A id \in DOMAIN bathtubs \cap DOMAIN bathtubs' :
             bathtubs'[id].created_at = bathtubs[id].created_at]_vars

\* an update of created_at on a stored record was refused
C2_Witness ==
    /\ ret.op = "update_field"
    /\ ret.field = "created_at"
    /\ ret.raised = "read-only"
    /\ DenotedId(ret.entry_id) \in DOMAIN bathtubs
    /\ ret.new_value # bathtubs[DenotedId(ret.entry_id)].created_at

\* C3: update_field on a numeric field with a value that does not parse as a
\* number raises the invalid-value error and writes nothing; on the text
\* fields name and liters every value passes the conversion.
C3_NumericFieldsRejectUnparseable ==
    [][UpdateReturned =>
         /\ (/\ ret'.field \in {"top_length", "bottom_length", "width", "height", "side_incline_degrees"}
             /\ ~float(ret'.new_value).ok)
               => (ret'.raised = "Invalid value" /\ store' = store)
         /\ ret'.field \in {"name", "liters"} => ret'.raised = ""]_vars

\* an unparseable width for a stored record was refused
C3_Witness ==
    /\ ret.op = "update_field"
    /\ ret.field = "width"
    /\ ~float(ret.new_value).ok
    /\ ret.raised = "Invalid value"
    /\ DenotedId(ret.entry_id) \in DOMAIN bathtubs

\* C4: update_field with a field name outside the field table (id included)
\* raises the unknown-field error whatever the identifier and the value are,
\* also when the value would not convert, and leaves the store as it was.
C4_UnknownFieldRejected ==
    [][(/\ UpdateReturned
        /\ ret'.field \notin {"name", "top_length", "bottom_length", "width", "height",
                              "side_incline_degrees", "liters", "created_at"})
          => (ret'.raised = "Unknown field" /\ store' = store)]_vars

\* an update of the id column of a stored record was refused
C4_Witness ==
    /\ ret.op = "update_field"
    /\ ret.field = "id"
    /\ ret.raised = "Unknown field"
    /\ DenotedId(ret.entry_id) \in DOMAIN bathtubs

\* C5 as claimed: update_field with an editable field and a value that passes
\* the conversion raises nothing, returns true exactly when a record with the
\* identifier exists, and changes nothing when there is none.
C5_ReturnsWhetherRecordExists ==
    [][(/\ UpdateReturned
        /\ ret'.field \in {"name", "top_length", "bottom_length", "width", "height",
                           "side_incline_degrees", "liters"}
        /\ (ret'.field \in {"name", "liters"} \/ float(ret'.new_value).ok))
          => /\ ret'.raised = ""
             /\ ret'.result = "True" <=> DenotedId(ret'.entry_id) \in DOMAIN bathtubs
             /\ DenotedId(ret'.entry_id) \notin DOMAIN bathtubs => store' = store]_vars

SaveReturned == ret'.op = "save_bathtub" /\ ret.op = ""

Inserted == SaveReturned /\ ret'.raised = "" /\ ret'.lastrowid # 0

\* the record the form's inputs f describe, but for liters, id and created_at
MatchesInputs(row, f) ==
    /\ row.name = f.name
    /\ row.top_length = float(f.top_length).v
    /\ row.bottom_length = float(f.bottom_length).v
    /\ row.width = float(f.width).v
    /\ row.height = float(f.height).v
    /\ row.side_incline_degrees =
         calculate_incline(float(f.top_length).v, float(f.bottom_length).v, float(f.height).v)

\* C6 as claimed: after a form submission that inserted, the fetch by the
\* identifier returned yields one record holding the submitted name and
\* measurements, the incline computed from them, and the capacity text as
\* entered ("N/A" when it was blank).
C6_RoundTripLitersAsEntered ==
    [][Inserted =>
         /\ Cardinality(get_entry_by_id(bathtubs', ret'.lastrowid)) = 1
         /\ \A row \in get_entry_by_id(bathtubs', ret'.lastrowid) :
              /\ row.id = ret'.lastrowid
              /\ MatchesInputs(row, form)
              /\ row.liters = IF strip(form.liters) = <<>> THEN NA ELSE form.liters]_vars

\* C6 as amended: the same, with liters equal to the capacity text stripped of
\* its leading and trailing blanks ("N/A" when nothing is left).
C6_RoundTripLitersStripped ==
    [][Inserted =>
         /\ Cardinality(get_entry_by_id(bathtubs', ret'.lastrowid)) = 1
         /\ \A row \in get_entry_by_id(bathtubs', ret'.lastrowid) :
              /\ row.id = ret'.lastrowid
              /\ MatchesInputs(row, form)
              /\ row.liters = IF strip(form.liters) = <<>> THEN NA ELSE strip(form.liters)]_vars

\* a record with a sloped side and a capacity was saved and can be fetched
C6_Witness ==
    /\ ret.op = "save_bathtub"
    /\ ret.lastrowid = 2
    /\ \E row \in get_entry_by_id(bathtubs, 2) :
         /\ row.liters = <<"9">>
         /\ row.side_incline_degrees = [k |-> "deg", n |-> 1, d |-> 2]
         /\ row.top_length = Fin(6, 1)

\* C7: identifiers are unique and stable. No two stored records share an id,
\* no operation changes the id of a record that stays in the table, and an
\* insert returns an identifier that was never returned before, the
\* identifiers of deleted records included.
C7_IdentifiersUniqueAndStable ==
    [][/\ \A i, j \in DOMAIN bathtubs' : bathtubs'[i].id = bathtubs'[j].id => i = j
       /\ \A i \in DOMAIN bathtubs \cap DOMAIN bathtubs' : bathtubs'[i].id = bathtubs[i].id
       /\ \A i \in DOMAIN bathtubs' \ DOMAIN bathtubs :
            /\ Inserted
            /\ bathtubs'[i].id = ret'.lastrowid
       /\ Inserted =>
            /\ ret'.lastrowid \notin assigned
            /\ \A i \in DOMAIN bathtubs : bathtubs[i].id # ret'.lastrowid]_vars

\* an insert after the only record was deleted
C7_Witness ==
    /\ ret.op = "save_bathtub"
    /\ ret.lastrowid = 2
    /\ DOMAIN bathtubs = {2}
    /\ assigned = {1, 2}

\* C8 as claimed: the four measurements of every stored record are
\* non-negative numbers.
C8_MeasurementsNonNegative ==
    \A i \in DOMAIN bathtubs :
        \A col \in {"top_length", "bottom_length", "width", "height"} :
            bathtubs[i][col].k = "fin" /\ bathtubs[i][col].n >= 0

\* C9 as claimed: the name of every stored record is non-empty text.
C9_NamesNonEmpty == \A i \in DOMAIN bathtubs : bathtubs[i].name # <<>>

\* the inputs the form has to refuse: no name, or a measurement that is no number
Refusable(f) ==
    \/ f.name = <<>>
    \/ \E m \in {f.top_length, f.bottom_length, f.width, f.height} : ~float(m).ok

\* C10: the form's save is all or nothing. With no name or an unparseable
\* measurement it shows an error, inserts nothing and leaves the six inputs
\* as entered; a record is inserted only by a save that succeeds, which
\* inserts exactly one record and then clears the six inputs.
C10_SaveIsAllOrNothing ==
    [][SaveReturned =>
         /\ Refusable(form) =>
              /\ result_display'.class = "error-display"
              /\ result_display'.text # ""
              /\ bathtubs' = bathtubs /\ sqlite_sequence' = sqlite_sequence
              /\ form' = form
              /\ ret'.raised = ""
         /\ bathtubs' # bathtubs => (~Refusable(form) /\ ret'.raised = "")
         /\ (~Refusable(form) /\ ret'.raised = "") =>
              /\ DOMAIN bathtubs' = DOMAIN bathtubs \cup {ret'.lastrowid}
              /\ ret'.lastrowid \notin DOMAIN bathtubs
              /\ \A i \in DOMAIN bathtubs : bathtubs'[i] = bathtubs[i]
              /\ form' = BlankForm
              /\ result_display'.class = "result-display"]_vars

\* a form with an unparseable width was refused with its inputs kept
C10_WitnessRefused ==
    /\ ret.op = "save_bathtub"
    /\ form.name = <<"A">>
    /\ form.width = <<>>
    /\ result_display.class = "error-display"

\* the angles from 0 (included) to 90 (excluded): an exact number of degrees
\* in that range, or the angle of a positive finite slope
InZeroToNinety(x) ==
    \/ x.k = "fin" /\ 0 <= x.n /\ x.n < 90 * x.d
    \/ x.k = "deg" /\ x.n > 0

\* C11 as claimed: for non-negative top_length, bottom_length and height,
\* calculate_incline returns 0 when height is 0; when height is positive it
\* returns an angle in [0, 90) that is 0 exactly when the two lengths are
\* equal; and the angle depends on |top_length - bottom_length| and height
\* only, so that swapping the two lengths gives the same angle.
C11_InclineInRangeAndSymmetric ==
    incline_call.returned =>
        LET top_length == incline_call.top_length
            bottom_length == incline_call.bottom_length
            height == incline_call.height
        IN  /\ FIsZero(height) => incline_call.result = Zero
            /\ ~FIsZero(height) =>
                  /\ InZeroToNinety(incline_call.result)
                  /\ incline_call.result = Zero <=> top_length = bottom_length
            /\ incline_call.result = calculate_incline(bottom_length, top_length, height)
            /\ \A t, b \in InclineInputs :
                  FAbs(FSub(t, b)) = FAbs(FSub(top_length, bottom_length))
                    => calculate_incline(t, b, height) = incline_call.result

DeleteReturned == ret'.op = "delete_bathtub" /\ ret.op = ""

\* C12: delete_bathtub(id) of a stored record returns true and removes that
\* record and no other, the records that stay being unchanged; for an
\* identifier that is not stored it returns false, raises nothing and leaves
\* the records as they were.
C12_DeleteRemovesExactlyOne ==
    [][DeleteReturned =>
         /\ ret'.raised = ""
         /\ IF ret'.bathtub_id \in DOMAIN bathtubs
            THEN /\ ret'.result = "True"
                 /\ DOMAIN bathtubs' = DOMAIN bathtubs \ {ret'.bathtub_id}
                 /\ \A other \in DOMAIN bathtubs' : bathtubs'[other] = bathtubs[other]
            ELSE /\ ret'.result = "False"
                 /\ bathtubs' = bathtubs
         /\ sqlite_sequence' = sqlite_sequence]_vars

\* one of two stored records was deleted and the other one is still there
C12_Witness ==
    /\ ret.op = "delete_bathtub"
    /\ ret.result = "True"
    /\ ret.bathtub_id = 1
    /\ DOMAIN bathtubs = {2}
    /\ assigned = {1, 2}

ConfirmAnswered == session.at = "confirm" /\ ret'.op = "run_interactive" /\ ret.op = ""

\* the answers that confirm: y or yes, in any case, blanks around them ignored
IsYes(answer) == lower(strip(answer)) = <<"y">> \/ lower(strip(answer)) = <<"y", "e", "s">>

\* C13: while the interactive mode runs, the table is written only by the
\* step that answers the confirmation prompt, and only when the answer is y
\* or yes; after any other answer the change is cancelled and the store is
\* as it was; and whatever the answer, the update failing included, the
\* session is back at the options menu and has not ended.
C13_WriteOnlyAfterConfirmation ==
    [][/\ (session.at # "closed" /\ store' # store) => (ConfirmAnswered /\ IsYes(ret'.answer))
       /\ ConfirmAnswered =>
            /\ ~IsYes(ret'.answer) => (store' = store /\ ret'.result = "None" /\ ret'.raised = "")
            /\ session'.at = "options"
            /\ ret'.exit_code = 0]_vars

\* the answer " YES " was given, the update was made, and the menu is back
C13_Witness ==
    /\ ret.op = "run_interactive"
    /\ ret.answer = <<" ", "Y", "E", "S", " ">>
    /\ ret.result = "True"
    /\ session.at = "options"
    /\ \E i \in DOMAIN bathtubs : bathtubs[i].height = Fin(5, 1)

\* a run of the manager in a direct mode has ended
DirectExit ==
    /\ ret.op = ""
    /\ \/ ret'.op \in {"update_field", "_check_database"}
       \/ ret'.op = "main" /\ ret'.mode # "interactive"

\* the errors of an --update run: no database file, a field that is unknown
\* or read-only, a value that is no number for a numeric field, and the
\* store refusing the value for a stored record
UpdateError(entry_id, field, value) ==
    \/ ~db_exists
    \/ field \notin {"name", "top_length", "bottom_length", "width", "height",
                     "side_incline_degrees", "liters"}
    \/ /\ field \in {"top_length", "bottom_length", "width", "height", "side_incline_degrees"}
       /\ \/ ~float(value).ok
          \/ float(value).v = NaN /\ DenotedId(entry_id) \in DOMAIN bathtubs

\* the errors of a --search, --id or --list run: an --id that is no integer,
\* no database file
QueryError(args) == (args.has_id /\ ~int(args.id).ok) \/ ~db_exists

\* C14: a run in a direct mode exits with a code other than zero exactly when
\* an error was caught at startup or in the operation; in every other case,
\* an --update of an identifier that is not stored and a search that finds
\* nothing included, the exit code is zero.
C14_NonZeroExitIffError ==
    [][DirectExit =>
         /\ ret'.exit_code # 0 <=>
               IF ret'.op = "main" THEN QueryError(ret'.args)
               ELSE UpdateError(ret'.entry_id, ret'.field, ret'.new_value)
         /\ ret'.exit_code # 0 <=> ret'.raised # ""
         /\ ret'.exit_code # 0 => store' = store]_vars

\* an --update of an identifier that is not stored, with a record stored,
\* has ended with exit code zero
C14_Witness ==
    /\ ret.op = "update_field"
    /\ ret.field = "width"
    /\ ret.result = "False"
    /\ ret.exit_code = 0
    /\ DOMAIN bathtubs = {1}

\* C15 as claimed: with --id k and neither --update nor --search the manager
\* searches for the identifier k, displays the one record or none that it
\* finds and exits; and the interactive mode is entered only when none of
\* --update, --search, --id and --list is given.
C15_IdSearchForEveryInteger ==
    [][(ret.op = "" /\ ret'.op = "main" /\ ret'.raised = "") =>
         /\ (ret'.args.has_id /\ ~ret'.args.has_search) =>
               /\ ret'.mode = "id"
               /\ ret'.entries = {bathtubs[i] : i \in {j \in DOMAIN bathtubs : j = int(ret'.args.id).v}}
               /\ Cardinality(ret'.entries) <= 1
               /\ session'.at = "closed"
         /\ session'.at # "closed" => ret'.args = NoArgs]_vars

\* C16 as claimed: the side_incline_degrees of every stored record is
\* calculate_incline of the record's top_length, bottom_length and height.
C16_InclineMatchesItsInputs ==
    \A i \in DOMAIN bathtubs :
        bathtubs[i].side_incline_degrees =
            calculate_incline(bathtubs[i].top_length, bathtubs[i].bottom_length, bathtubs[i].height)

====
